---- MODULE Spec2Model ----
(***************************************************************************)
(* Model of the DoD contract scraper (src/index.js).                       *)
(*                                                                         *)
(* src/index.js holds two versions of the server back to back:             *)
(*   lines   1-455  the full server: /, /contracts, /contract-detail,      *)
(*                  /ingest, the award extractor, the Supabase sink and    *)
(*                  the signal handlers (no admission queue);              *)
(*   lines 457-583  the queued server: /, /contracts and a                 *)
(*                  /contract-detail whose render runs inside a PQueue of  *)
(*                  concurrency 1.                                         *)
(* Spec models the first, SpecQ the second, SpecExtract and SpecLimit the  *)
(* pure computations of the first (parseAwardsFromText, the limit clamp).  *)
(***************************************************************************)
EXTENDS Integers, Sequences, FiniteSets, TLC

VARIABLES
    now,            \* the system clock, in ms (what new Date() and the timers read)
    browserPromise, \* the module's browserPromise: 0 (null) or the launch it holds
    browsers,       \* the launches made by chromium.launch, in order
    contexts,       \* the browsing contexts created by browser.newContext, in order
    reqs,           \* the requests: each handler's position and locals
    sig,            \* the signal handlers: each one's position and the launch it awaits
    exited,         \* process.exit was called
    sbConfigured,   \* SB_URL && SB_KEY
    qWaiting,       \* queued server: the jobs the PQueue holds, in order
    qPending,       \* queued server: the jobs the PQueue is running
    qIntervalCount, \* queued server: the jobs started in the current interval
    xText,          \* SpecExtract: the text handed to parseAwardsFromText
    xCtx,           \* SpecExtract: the context {link, pub}
    xRuns,          \* SpecExtract: the results of the calls made so far, with their call time
    lRaw,           \* SpecLimit: req.query.limit
    lFeed,          \* SpecLimit: the parsed feed
    lItems,         \* SpecLimit: the items the loop of /ingest runs over, once selected
    uIn,            \* SpecUrl: the link handed to normalizeUrl
    uOut            \* SpecUrl: what normalizeUrl returned for it, once called

(***************************************************************************)
(* Bounds                                                                  *)
(***************************************************************************)
\* the clock runs from 0 to MaxTicks * WAIT_MS
MaxTicks == 2
\* parseAwardsFromText is called at most MaxCalls times on one input
MaxCalls == 2
\* the requests the server receives
NumReqs == 2
\* the items of the feed the server reads
MaxFeed == 2
\* chromium.launch is called at most MaxLaunch times
MaxLaunch == 2
\* SpecLimit: the feed holds up to MaxLimitFeed items
MaxLimitFeed == 22
\* SpecExtract: a dollar figure holds up to MaxAmountDigits digits
MaxAmountDigits == 310

(***************************************************************************)
(* Program constants                                                       *)
(***************************************************************************)
\* spacing between contract page parses (ms)
WAIT_MS == 1500
\* max articles to ingest per /ingest call
MAX_CONTRACTS == 5
\* the bounds of the limit of /ingest
LIMIT_FLOOR == 1
LIMIT_CEILING == 20
\* the events echoed back by /ingest
SAMPLE_LEN == 3
\* the PQueue of the queued server: concurrency and intervalCap
QUEUE_CONCURRENCY == 1
INTERVAL_CAP == 30

(***************************************************************************)
(* Strings: JavaScript's String operations, on TLA+ strings                *)
(***************************************************************************)
CharAt(s, i) == SubSeq(s, i, i)

LowerAlpha == "abcdefghijklmnopqrstuvwxyz"
UpperAlpha == "ABCDEFGHIJKLMNOPQRSTUVWXYZ"
Digits == "0123456789"

\* the 1-based index of character c in alphabet a, 0 when absent
IndexIn(a, c) ==
    LET at == {i \in 1..Len(a) : CharAt(a, i) = c}
    IN  IF at = {} THEN 0 ELSE CHOOSE i \in at : TRUE

\* where the character c first stands in s, 0 when it does not
FirstOf(s, c) ==
    LET at == {i \in 1..Len(s) : CharAt(s, i) = c}
    IN  IF at = {} THEN 0 ELSE CHOOSE i \in at : \A j \in at : i <= j

IsDigit(c) == IndexIn(Digits, c) # 0
\* \w
IsWordChar(c) ==
    \/ IndexIn(LowerAlpha, c) # 0
    \/ IndexIn(UpperAlpha, c) # 0
    \/ IsDigit(c)
    \/ c = "_"
\* \s (the whitespace the inputs can hold)
IsSpace(c) == c \in {" ", "\n", "\t", "\r", "\f"}

UpperChar(c) ==
    LET k == IndexIn(LowerAlpha, c)
    IN  IF k = 0 THEN c ELSE CharAt(UpperAlpha, k)

RECURSIVE UpperRange(_, _, _)
\* the characters lo..hi of s in upper case (halving, to keep the evaluation shallow)
UpperRange(s, lo, hi) ==
    IF lo > hi THEN ""
    ELSE IF lo = hi THEN UpperChar(CharAt(s, lo))
    ELSE LET mid == (lo + hi) \div 2
         IN  UpperRange(s, lo, mid) \o UpperRange(s, mid + 1, hi)

\* String.prototype.toUpperCase
toUpperCase(s) == UpperRange(s, 1, Len(s))

RECURSIVE TrimStart(_)
TrimStart(s) ==
    IF s # "" /\ IsSpace(CharAt(s, 1)) THEN TrimStart(SubSeq(s, 2, Len(s))) ELSE s

RECURSIVE TrimEnd(_)
TrimEnd(s) ==
    IF s # "" /\ IsSpace(CharAt(s, Len(s))) THEN TrimEnd(SubSeq(s, 1, Len(s) - 1)) ELSE s

\* String.prototype.trim
trim(s) == TrimEnd(TrimStart(s))

\* String.prototype.slice(0, n)
slice0(s, n) == SubSeq(s, 1, IF n < Len(s) THEN n ELSE Len(s))

RECURSIVE RemoveCRRange(_, _, _)
RemoveCRRange(s, lo, hi) ==
    IF lo > hi THEN ""
    ELSE IF lo = hi THEN (IF CharAt(s, lo) = "\r" THEN "" ELSE CharAt(s, lo))
    ELSE LET mid == (lo + hi) \div 2
         IN  RemoveCRRange(s, lo, mid) \o RemoveCRRange(s, mid + 1, hi)

\* .replace(/\r/g, '')
RemoveCR(s) == RemoveCRRange(s, 1, Len(s))

RECURSIVE NewlineRun(_, _)
\* the number of consecutive "\n" of s from position i
NewlineRun(s, i) ==
    IF i <= Len(s) /\ CharAt(s, i) = "\n" THEN 1 + NewlineRun(s, i + 1) ELSE 0

\* where the matches of /\n{2,}/ start in s: a line break followed by another
\* and preceded by none
SepStarts(s) ==
    {i \in 1..Len(s) : /\ NewlineRun(s, i) >= 2
                       /\ (i = 1 \/ CharAt(s, i - 1) # "\n")}

RECURSIVE SplitFrom(_, _)
\* .split(/\n{2,}/) of s from position start on
SplitFrom(s, start) ==
    LET seps == {i \in SepStarts(s) : i >= start}
    IN  IF seps = {} THEN << SubSeq(s, start, Len(s)) >>
        ELSE LET i == CHOOSE j \in seps : \A k \in seps : j <= k
             IN  << SubSeq(s, start, i - 1) >> \o SplitFrom(s, i + NewlineRun(s, i))

SplitParas(s) == SplitFrom(s, 1)

\* .replace(/:$/, '')
StripTrailingColon(s) ==
    IF s # "" /\ CharAt(s, Len(s)) = ":" THEN SubSeq(s, 1, Len(s) - 1) ELSE s

RECURSIVE StartsWithCI(_, _)
\* s starts with the (upper-case) prefix p, ignoring case; an apostrophe of p
\* stands for the class [’'] of the source's patterns
StartsWithCI(s, p) ==
    IF p = "" THEN TRUE
    ELSE IF s = "" THEN FALSE
    ELSE /\ UpperChar(CharAt(s, 1)) = CharAt(p, 1)
         /\ StartsWithCI(SubSeq(s, 2, Len(s)), SubSeq(p, 2, Len(p)))

(***************************************************************************)
(* Dates: toISO (Date.parse, Date.prototype.toISOString)                   *)
(***************************************************************************)
\* the pubDate strings Date.parse can read, with the instant (ms) each names
KnownDates ==
    [ s \in {"Thu, 01 Jan 1970 00:00:01 GMT", "Thu, 01 Jan 1970 00:00:02 GMT"} |->
        IF s = "Thu, 01 Jan 1970 00:00:01 GMT" THEN 1000 ELSE 2000 ]

\* isNaN(Date.parse(d || '')): the string names no instant
DateParseIsNaN(d) == d \notin DOMAIN KnownDates
\* Date.parse(d), for a string that names an instant
DateParse(d) == KnownDates[d]

Digit(n) == CharAt(Digits, n + 1)
Pad2(n) == Digit((n \div 10) % 10) \o Digit(n % 10)
Pad3(n) == Digit((n \div 100) % 10) \o Pad2(n % 100)

\* new Date(t).toISOString(), for instants of the first hour of the epoch
toISOString(t) ==
    "1970-01-01T00:" \o Pad2((t \div 60000) % 60) \o ":" \o Pad2((t \div 1000) % 60)
        \o "." \o Pad3(t % 1000) \o "Z"

\* toISO(d), called when the clock reads clock
toISO(d, clock) ==
    IF DateParseIsNaN(d) THEN toISOString(clock) ELSE toISOString(DateParse(d))

(***************************************************************************)
(* Award extractor                                                         *)
(***************************************************************************)
SERVICES == <<
    "ARMY", "NAVY", "AIR FORCE", "MARINE CORPS", "SPACE FORCE",
    "DEFENSE LOGISTICS AGENCY", "MISSILE DEFENSE AGENCY",
    "U.S. SPECIAL OPERATIONS COMMAND", "COAST GUARD", "DEFENSE HEALTH AGENCY",
    "DEFENSE INFORMATION SYSTEMS AGENCY", "WASHINGTON HEADQUARTERS SERVICES",
    "DEPARTMENT OF THE ARMY", "DEPARTMENT OF THE NAVY",
    "DEPARTMENT OF THE AIR FORCE", "DEPARTMENT OF DEFENSE" >>

\* the shortest paragraph parseAwardsFromText keeps
MinParaLen == 40
\* the length of an event's summary
SummaryLen == 280

RECURSIVE SkipSpaces(_, _)
\* the first position at or after i of s that holds no whitespace
SkipSpaces(s, i) ==
    IF i <= Len(s) /\ IsSpace(CharAt(s, i)) THEN SkipSpaces(s, i + 1) ELSE i

RECURSIVE MatchName(_, _, _, _)
\* One alternative of serviceRe at position i of s: the name from its k-th
\* character on, a blank of the name standing for \s+ and a dot for any
\* character but a line break; the position after the match, or 0.
MatchName(s, i, name, k) ==
    IF k > Len(name) THEN i
    ELSE LET c == CharAt(name, k)
         IN  IF c = " "
             THEN IF i <= Len(s) /\ IsSpace(CharAt(s, i))
                  THEN MatchName(s, SkipSpaces(s, i), name, k + 1)
                  ELSE 0
             ELSE IF i > Len(s) THEN 0
             ELSE IF c = "."
             THEN IF CharAt(s, i) \in {"\n", "\r"} THEN 0
                  ELSE MatchName(s, i + 1, name, k + 1)
             ELSE IF UpperChar(CharAt(s, i)) = c
             THEN MatchName(s, i + 1, name, k + 1)
             ELSE 0

\* serviceRe.test(s): ^(?:name1|name2|...)\b, case-insensitive
serviceReTest(s) ==
    \E n \in 1..Len(SERVICES) :
        LET e == MatchName(s, 1, SERVICES[n], 1)
        IN  /\ e # 0
            /\ (e > Len(s) \/ ~IsWordChar(CharAt(s, e)))

\* /^editor[’']s note|^today[’']s department/i
IsBoilerplate(line) ==
    \/ StartsWithCI(line, "EDITOR'S NOTE")
    \/ StartsWithCI(line, "TODAY'S DEPARTMENT")

\* null, for the fields that hold a string otherwise
Null == "null"

\* [\d,]
IsAmountChar(c) == IsDigit(c) \/ c = ","

\* the position after the run of [\d,] that starts at position i of s
AmountRunEnd(s, i) ==
    LET stops == {j \in i..Len(s) : ~IsAmountChar(CharAt(s, j))}
    IN  IF stops = {} THEN Len(s) + 1 ELSE CHOOSE j \in stops : \A k \in stops : j <= k

\* the position after the run of \d that starts at position i of s
DigitRunEnd(s, i) ==
    LET stops == {j \in i..Len(s) : ~IsDigit(CharAt(s, j))}
    IN  IF stops = {} THEN Len(s) + 1 ELSE CHOOSE j \in stops : \A k \in stops : j <= k

\* /million|billion/i matches s from position i on
ScaleWordAt(s, i) ==
    LET rest == SubSeq(s, i, Len(s))
    IN  StartsWithCI(rest, "MILLION") \/ StartsWithCI(rest, "BILLION")

\* m[0] of s.match(/\$[\d,]+(?:\.\d+)?(?:\s*(million|billion))?/i), "" when
\* there is no match
MatchAmount(s) ==
    LET starts == {i \in 1..(Len(s) - 1) :
                      CharAt(s, i) = "$" /\ IsAmountChar(CharAt(s, i + 1))}
    IN  IF starts = {} THEN ""
        ELSE LET i == CHOOSE j \in starts : \A k \in starts : j <= k
                 a == AmountRunEnd(s, i + 1)
                 b == IF /\ a < Len(s)
                         /\ CharAt(s, a) = "."
                         /\ IsDigit(CharAt(s, a + 1))
                      THEN DigitRunEnd(s, a + 2) ELSE a
                 c == SkipSpaces(s, b)
                 d == IF ScaleWordAt(s, c) THEN c + 7 ELSE b
             IN  SubSeq(s, i, d - 1)

RECURSIVE RemoveAmountMarksRange(_, _, _)
RemoveAmountMarksRange(s, lo, hi) ==
    IF lo > hi THEN ""
    ELSE IF lo = hi THEN (IF CharAt(s, lo) \in {"$", ","} THEN "" ELSE CharAt(s, lo))
    ELSE LET mid == (lo + hi) \div 2
         IN  RemoveAmountMarksRange(s, lo, mid) \o RemoveAmountMarksRange(s, mid + 1, hi)

\* .replace(/[$,]/g, '')
RemoveAmountMarks(s) == RemoveAmountMarksRange(s, 1, Len(s))

\* .replace(/\s*(million|billion)/i, ''): the first match
RemoveScaleWord(s) ==
    LET hits == {i \in 1..Len(s) : ScaleWordAt(s, SkipSpaces(s, i))}
    IN  IF hits = {} THEN s
        ELSE LET i == CHOOSE j \in hits : \A k \in hits : j <= k
             IN  SubSeq(s, 1, i - 1) \o SubSeq(s, SkipSpaces(s, i) + 7, Len(s))

\* /billion/i.test(s), /million/i.test(s)
HasWord(s, w) == \E i \in 1..Len(s) : StartsWithCI(SubSeq(s, i, Len(s)), w)

\* s without its leading zeros
StripZeros(s) ==
    LET nz == {i \in 1..Len(s) : CharAt(s, i) # "0"}
    IN  IF nz = {} THEN "" ELSE SubSeq(s, CHOOSE i \in nz : \A k \in nz : i <= k, Len(s))

RECURSIVE DigitsBelow(_, _)
\* the digit string a is below the digit string b of the same length
DigitsBelow(a, b) ==
    IF a = "" THEN FALSE
    ELSE LET x == IndexIn(Digits, CharAt(a, 1))
             y == IndexIn(Digits, CharAt(b, 1))
         IN  IF x # y THEN x < y
             ELSE DigitsBelow(SubSeq(a, 2, Len(a)), SubSeq(b, 2, Len(b)))

\* the first digits of the decimals that round to Infinity: Number.MAX_VALUE
\* is about 1.7976931348623157e308
OverflowDigits == "17976931348623158"
\* the integer digits of the least such decimal
OverflowLen == 309

\* a Number: the integer digits and the fraction digits of the decimal read,
\* the power of ten it was multiplied by, and whether the product is finite
\* (a double holds no more than Number.MAX_VALUE, what is above is Infinity)
AmountOf(int, frac, exp) ==
    LET size == IF int = "" THEN 0 ELSE Len(int) + exp
        lead == SubSeq(int \o "00000000000000000", 1, Len(OverflowDigits))
    IN  [ isNull |-> FALSE,
          int    |-> int,
          frac   |-> frac,
          exp    |-> exp,
          finite |-> \/ size < OverflowLen
                     \/ size = OverflowLen /\ DigitsBelow(lead, OverflowDigits) ]

\* amount: null
NullAmount == [isNull |-> TRUE, int |-> "", frac |-> "", exp |-> 0, finite |-> TRUE]

\* parseAmount(s)
parseAmount(s) ==
    LET m0 == MatchAmount(s)
    IN  IF m0 = "" THEN [amount |-> NullAmount, unit |-> Null, text |-> Null]
        ELSE LET t    == RemoveScaleWord(RemoveAmountMarks(m0))
                 dot  == FirstOf(t, ".")
                 int  == StripZeros(IF dot = 0 THEN t ELSE SubSeq(t, 1, dot - 1))
                 frac == IF dot = 0 THEN "" ELSE SubSeq(t, dot + 1, Len(t))
                 exp  == IF HasWord(m0, "BILLION") THEN 9
                         ELSE IF HasWord(m0, "MILLION") THEN 6 ELSE 0
             IN  [amount |-> AmountOf(int, frac, exp), unit |-> "USD", text |-> m0]

\* the event pushed for one surviving paragraph
AwardEvent(line, current, ctx, clock) ==
    [ source       |-> "dod_contracts",
      source_url   |-> ctx.link,
      published_at |-> toISO(ctx.pub, clock),
      title        |-> current \o " contract award",
      summary      |-> slice0(line, SummaryLen),
      body_text    |-> line,
      agencies     |-> << "Department of Defense", current >>,
      amount       |-> parseAmount(line).amount,
      amount_unit  |-> parseAmount(line).unit,
      amount_text  |-> parseAmount(line).text ]

\* a loop that keeps the short paragraphs
TooShortNever(line) == FALSE

\* the short-paragraph test of the loop, made before the heading test
TooShort(line) == line = "" \/ Len(line) < MinParaLen

RECURSIVE ParseParas(_, _, _, _, _)
\* the loop of parseAwardsFromText over paras[k..], with the running heading
ParseParas(paras, k, current, ctx, clock) ==
    IF k > Len(paras) THEN << >>
    ELSE LET line == trim(paras[k])
         IN  IF TooShort(line)
             THEN ParseParas(paras, k + 1, current, ctx, clock)
             ELSE IF serviceReTest(toUpperCase(line))
             THEN LET c  == StripTrailingColon(toUpperCase(line))
                      c2 == IF c = "DLA" THEN "DEFENSE LOGISTICS AGENCY" ELSE c
                  IN  ParseParas(paras, k + 1, c2, ctx, clock)
             ELSE IF IsBoilerplate(line)
             THEN ParseParas(paras, k + 1, current, ctx, clock)
             ELSE << AwardEvent(line, current, ctx, clock) >>
                      \o ParseParas(paras, k + 1, current, ctx, clock)

\* parseAwardsFromText(text, ctx), called when the clock reads clock
parseAwardsFromText(text, ctx, clock) ==
    ParseParas(SplitParas(RemoveCR(text)), 1, "DEPARTMENT OF DEFENSE", ctx, clock)


(***************************************************************************)
(* Numbers: JavaScript's Number, Math.min, Math.max and the integer        *)
(* conversion of Array.prototype.slice. A number is NaN or a count of      *)
(* tenths (the inputs hold at most one decimal).                           *)
(***************************************************************************)
NaN == [nan |-> TRUE, tenths |-> 0]
Num(t) == [nan |-> FALSE, tenths |-> t]
Whole(n) == Num(n * 10)

RECURSIVE DigitsValue(_, _)
\* the value of the decimal digits s[1..k]
DigitsValue(s, k) ==
    IF k = 0 THEN 0 ELSE DigitsValue(s, k - 1) * 10 + (IndexIn(Digits, CharAt(s, k)) - 1)

AllDigits(s) == \A i \in 1..Len(s) : IsDigit(CharAt(s, i))

\* Number(s) of an unsigned literal: digits, or digits "." one digit
UnsignedToNumber(s) ==
    LET dot == FirstOf(s, ".")
    IN  IF dot = 0
        THEN IF s # "" /\ AllDigits(s) THEN Whole(DigitsValue(s, Len(s))) ELSE NaN
        ELSE LET ip == SubSeq(s, 1, dot - 1)
                 fp == SubSeq(s, dot + 1, Len(s))
             IN  IF AllDigits(ip) /\ AllDigits(fp) /\ Len(fp) = 1 /\ Len(ip) + Len(fp) > 0
                 THEN Num(DigitsValue(ip, Len(ip)) * 10 + DigitsValue(fp, 1))
                 ELSE NaN

\* Number(s) of a string: blanks trimmed, "" is 0, an optional sign, else NaN
StringToNumber(s) ==
    LET t == trim(s)
    IN  IF t = "" THEN Whole(0)
        ELSE IF CharAt(t, 1) = "-"
        THEN LET u == UnsignedToNumber(SubSeq(t, 2, Len(t)))
             IN  IF u.nan THEN NaN ELSE Num(0 - u.tenths)
        ELSE IF CharAt(t, 1) = "+" THEN UnsignedToNumber(SubSeq(t, 2, Len(t)))
        ELSE UnsignedToNumber(t)

MathMin(a, b) ==
    IF a.nan \/ b.nan THEN NaN ELSE IF a.tenths <= b.tenths THEN a ELSE b
MathMax(a, b) ==
    IF a.nan \/ b.nan THEN NaN ELSE IF a.tenths >= b.tenths THEN a ELSE b

\* ToIntegerOrInfinity: NaN is 0, a fraction is cut towards zero
ToInteger(a) ==
    IF a.nan THEN 0
    ELSE IF a.tenths >= 0 THEN a.tenths \div 10 ELSE 0 - ((0 - a.tenths) \div 10)

\* Array.prototype.slice(0, end)
slice(arr, end) ==
    LET k     == ToInteger(end)
        final == IF k < 0 THEN (IF Len(arr) + k < 0 THEN 0 ELSE Len(arr) + k)
                 ELSE IF k < Len(arr) THEN k ELSE Len(arr)
    IN  SubSeq(arr, 1, final)

\* a query parameter: absent, or the string given
Absent == [given |-> FALSE, s |-> ""]
Given(s) == [given |-> TRUE, s |-> s]

\* Number(req.query.limit || MAX_CONTRACTS)
LimitNumber(raw) ==
    IF raw.given /\ raw.s # "" THEN StringToNumber(raw.s) ELSE Whole(MAX_CONTRACTS)

\* the upper clamp of the limit
UpperClamp(n) == MathMin(n, Whole(LIMIT_CEILING))
\* the lower clamp of the limit
LowerClamp(n) == MathMax(Whole(LIMIT_FLOOR), n)

\* const limit = Math.max(1, Math.min(Number(req.query.limit || MAX_CONTRACTS), 20))
IngestLimit(raw) == LowerClamp(UpperClamp(LimitNumber(raw)))

\* parseRss(xml).slice(0, limit)
SelectItems(feed, raw) == slice(feed, IngestLimit(raw))

(***************************************************************************)
(* The feed and the pages the server reads                                 *)
(***************************************************************************)
AwardLine == "XYZ Corp of Anytown, VA, has been awarded a $12.5 million contract. W912DY-24-C-0001"
OtherLine == "Acme Inc., Dayton, Ohio, is being awarded $9,000,000 for spare parts."

LinkOf(k) == "https://www.defense.gov/c/" \o Digit(k % 10)

\* the k-th item of the feed, as parseRss returns it
FeedItem(k) ==
    [ title |-> "Contracts " \o Digit(k % 10),
      link  |-> LinkOf(k),
      pub   |-> "Thu, 01 Jan 1970 00:00:01 GMT" ]

FeedOf(n) == [k \in 1..n |-> FeedItem(k)]

\* what page.evaluate reads on the page of the k-th item
PageText(k) ==
    IF k % 2 = 1 THEN "ARMY\n\n" \o AwardLine \o "\n"
    ELSE "NAVY\n\n" \o AwardLine \o "\n\n" \o OtherLine

\* the instants the clock can read
Times == {t * WAIT_MS : t \in 0..MaxTicks}

\* parseAwardsFromText(readable, it) for the page of each item at each instant
PageEvents ==
    [k \in 1..MaxFeed, t \in Times |-> parseAwardsFromText(PageText(k), FeedItem(k), t)]

PageTitle(k) == "Contracts " \o Digit(k % 10)

(***************************************************************************)
(* The server: requests                                                    *)
(***************************************************************************)
Reqs == 1..NumReqs
Signals == {"SIGTERM", "SIGINT"}

NoResp == [status |-> 0]

\* a request that has not arrived
NewReq ==
    [ kind      |-> "none",   \* health | contracts | detail | ingest | qdetail
      pc        |-> "idle",   \* the await the handler stands at
      item      |-> 0,        \* /contract-detail: the page asked for (0: no url)
      limit     |-> Absent,   \* /ingest: req.query.limit
      context   |-> 0,        \* let context: 0 (undefined) or the context held
      handle    |-> 0,        \* const browser: the launch getBrowser() returned
      items     |-> << >>,    \* /ingest: const items
      i         |-> 0,        \* /ingest: the loop counter
      allEvents |-> << >>,    \* /ingest: const allEvents
      done      |-> << >>,    \* /ingest: how each item begun so far ended (history)
      wake      |-> 0,        \* when the sleep the handler stands at ends
      doSave    |-> FALSE,    \* /ingest: const doSave
      sink      |-> "none",   \* /ingest: how the call of saveToSupabase ended (history)
      sinkCalls |-> 0,        \* /ingest: the requests made to the sink (history)
      feed      |-> "none",   \* /ingest: how the fetch of the feed ended (history)
      content   |-> "",       \* /contract-detail: const content
      resp      |-> NoResp ]  \* the response sent

\* A continuation of a signal handler is due. Continuations (microtasks) run
\* before the next callback of I/O, of a timer or of a signal: Macro guards the
\* callbacks.
SigDue(s) ==
    \/ sig[s].pc = "exitPending"
    \/ sig[s].pc = "awaiting" /\ browsers[sig[s].h].state # "pending"

Macro == ~exited /\ \A s \in Signals : ~SigDue(s)

OpenContexts == {c \in 1..Len(contexts) : contexts[c].open}

(***************************************************************************)
(* Browser management                                                      *)
(***************************************************************************)
\* a getBrowser that launches again once a launch has failed
NeedsLaunchAfterFailure ==
    browserPromise = 0 \/ browsers[browserPromise].state = "failed"

\* a getBrowser that launches at every call
NeedsLaunchAlways == TRUE

\* getBrowser: if (!browserPromise)
NeedsLaunch == browserPromise = 0

\* getBrowser(), called by request r: launches when no launch is held; the
\* launch returned is browserPromise'
getBrowser(r) ==
    IF NeedsLaunch
    THEN /\ Len(browsers) < MaxLaunch
         /\ browsers' = Append(browsers, [state |-> "pending", by |-> r, closes |-> 0])
         /\ browserPromise' = Len(browsers) + 1
    ELSE UNCHANGED << browsers, browserPromise >>

\* chromium.launch settles: the browser runs, or the launch is rejected
LaunchSettles ==
    /\ Macro
    /\ \E h \in 1..Len(browsers), ok \in BOOLEAN :
        /\ browsers[h].state = "pending"
        /\ browsers' = [browsers EXCEPT ![h].state = IF ok THEN "running" ELSE "failed"]
    /\ UNCHANGED << now, browserPromise, contexts, reqs, sig, exited, sbConfigured,
                    qWaiting, qPending, qIntervalCount, xText, xCtx, xRuns, lRaw, lFeed, lItems,
                    uIn, uOut >>

(***************************************************************************)
(* Responses                                                               *)
(***************************************************************************)
\* a handler that answers its failures with a success
Respond500AsSuccess(rec) ==
    [rec EXCEPT !.pc = "done", !.resp = [status |-> 200, success |-> TRUE]]

\* res.status(500).json({ success: false, error })
Respond500(rec) == [rec EXCEPT !.pc = "done", !.resp = [status |-> 500, success |-> FALSE]]

\* the summary of /ingest
Respond200(rec, saved) ==
    [rec EXCEPT !.pc = "done",
                !.resp = [ status   |-> 200,
                           success  |-> TRUE,
                           articles |-> Len(rec.items),
                           events   |-> Len(rec.allEvents),
                           saved    |-> saved,
                           sample   |-> SubSeq(rec.allEvents, 1,
                                          IF Len(rec.allEvents) < SAMPLE_LEN
                                          THEN Len(rec.allEvents) ELSE SAMPLE_LEN) ]]

\* the catch block of /contract-detail and the outer catch of /ingest:
\* if (context) { try { await context.close(); } catch {} } and the 500
Catch(rec) ==
    IF rec.context # 0 THEN [rec EXCEPT !.pc = "catchClose"] ELSE Respond500(rec)

\* the queued /contract-detail: the job rejects, the handler's catch answers 500
CatchQ(rec) == Respond500(rec)

\* a loop that does not sleep between its items
InterItemDelayNone(i) == 0

\* if (i > 0) await sleep(WAIT_MS)
InterItemDelay(i) == IF i > 0 THEN WAIT_MS ELSE 0

\* an /ingest that saves whatever was asked and extracted
AfterLoopAlwaysSave(rec) == [rec EXCEPT !.pc = "save", !.sinkCalls = rec.sinkCalls + 1]

\* /ingest after the loop: the optional persistence and the summary
AfterLoop(rec) ==
    IF rec.doSave /\ Len(rec.allEvents) > 0
    THEN IF sbConfigured
         THEN \* saveToSupabase makes its request
              [rec EXCEPT !.pc = "save", !.sinkCalls = rec.sinkCalls + 1]
         ELSE Respond200([rec EXCEPT !.sink = "skipped"], 0)
    ELSE Respond200(rec, 0)

\* /ingest at the head of the loop, the clock reading clock
LoopHead(rec, clock) ==
    IF rec.i < Len(rec.items)
    THEN IF InterItemDelay(rec.i) > 0
         THEN [rec EXCEPT !.pc = "sleep", !.wake = clock + InterItemDelay(rec.i)]
         ELSE [rec EXCEPT !.pc = "newContext"]
    ELSE AfterLoop(rec)

\* an awaited call rejects while the handler stands at rec.pc
OnThrow(rec) ==
    IF rec.kind = "qdetail" THEN CatchQ(rec)
    ELSE IF rec.kind = "ingest" /\ rec.pc = "render"
    THEN \* the inner catch logs, the finally closes the context
         [rec EXCEPT !.pc = "close", !.done = Append(rec.done, "failed")]
    ELSE Catch(rec)

\* a queue whose slot is freed by the jobs that succeed only
CommitReleaseOnSuccess(r, rec) ==
    /\ reqs' = [reqs EXCEPT ![r] = rec]
    /\ qPending' = IF /\ reqs[r].kind = "qdetail"
                      /\ reqs[r].pc \notin {"idle", "queued"}
                      /\ rec.pc = "done"
                      /\ rec.resp.status = 200
                   THEN qPending - 1 ELSE qPending

\* the request's record changes; a job of the queue that ends frees its slot
Commit(r, rec) ==
    /\ reqs' = [reqs EXCEPT ![r] = rec]
    /\ qPending' = IF /\ reqs[r].kind = "qdetail"
                      /\ reqs[r].pc \notin {"idle", "queued"}
                      /\ rec.pc = "done"
                   THEN qPending - 1 ELSE qPending

pureVars == << xText, xCtx, xRuns, lRaw, lFeed, lItems,
                    uIn, uOut >>


\* what a step of a request handler leaves alone besides the browser and the contexts
Frame ==
    UNCHANGED << now, sig, exited, sbConfigured, qWaiting, qIntervalCount, pureVars >>

\* req.query.limit of the requests the server receives
LimitInputs == {Absent, Given("1"), Given("abc")}

(***************************************************************************)
(* Request handlers of the full server (lines 1-455). One action is one    *)
(* continuation of a handler, from the settling of what it awaits to its   *)
(* next await; consecutive awaits that touch nothing shared and are        *)
(* handled by the same catch are one action, with one disjunct per call    *)
(* that can reject.                                                        *)
(***************************************************************************)
\* requests arrive in the order of their numbers
MayArrive(r) ==
    /\ Macro
    /\ reqs[r].kind = "none"
    /\ \A q \in Reqs : q < r => reqs[q].kind # "none"

\* GET /
ArriveHealth(r) ==
    /\ MayArrive(r)
    /\ Commit(r, [reqs[r] EXCEPT !.kind = "health", !.pc = "done",
                                 !.resp = [status |-> 200, success |-> TRUE]])
    /\ UNCHANGED << browsers, browserPromise, contexts >>
    /\ Frame

\* GET /contracts, to its fetch of the feed
ArriveContracts(r) ==
    /\ MayArrive(r)
    /\ Commit(r, [reqs[r] EXCEPT !.kind = "contracts", !.pc = "fetchRss"])
    /\ UNCHANGED << browsers, browserPromise, contexts >>
    /\ Frame

\* POST /contract-detail, to its first await
ArriveDetail(r) ==
    /\ MayArrive(r)
    /\ \E item \in 0..1, delayMs \in {0, WAIT_MS} :
        LET rec == [reqs[r] EXCEPT !.kind = "detail", !.item = item]
        IN  IF item = 0
            THEN \* if (!url) return res.status(400)
                 /\ Commit(r, [rec EXCEPT !.pc = "done",
                                          !.resp = [status |-> 400, success |-> FALSE]])
                 /\ UNCHANGED << browsers, browserPromise >>
            ELSE IF delayMs > 0
            THEN /\ Commit(r, [rec EXCEPT !.pc = "sleep", !.wake = now + delayMs])
                 /\ UNCHANGED << browsers, browserPromise >>
            ELSE /\ getBrowser(r)
                 /\ Commit(r, [rec EXCEPT !.pc = "awaitBrowser", !.handle = browserPromise'])
    /\ UNCHANGED contexts
    /\ Frame

\* POST /ingest, to its fetch of the feed
ArriveIngest(r) ==
    /\ MayArrive(r)
    /\ \E raw \in LimitInputs, save \in BOOLEAN :
        Commit(r, [reqs[r] EXCEPT !.kind = "ingest", !.pc = "fetchRss",
                                  !.limit = raw, !.doSave = save])
    /\ UNCHANGED << browsers, browserPromise, contexts >>
    /\ Frame

\* the fetch of the feed and the read of its body settle
FetchRss(r) ==
    /\ Macro
    /\ reqs[r].pc = "fetchRss"
    /\ LET rec  == reqs[r]
           feed == FeedOf(MaxFeed)
       IN  \/ \* the fetch rejects (transport failure, timeout)
              /\ Commit(r, IF rec.kind = "ingest"
                           THEN Catch([rec EXCEPT !.feed = "failed"])
                           ELSE Respond500(rec))
              /\ UNCHANGED << browsers, browserPromise >>
           \/ \* GET /contracts answers the items
              /\ rec.kind = "contracts"
              /\ Commit(r, [rec EXCEPT !.pc = "done",
                                       !.resp = [status |-> 200, success |-> TRUE,
                                                 count |-> Len(feed)]])
              /\ UNCHANGED << browsers, browserPromise >>
           \/ \* POST /ingest selects its items and asks for the browser
              /\ rec.kind = "ingest"
              /\ getBrowser(r)
              /\ Commit(r, [rec EXCEPT !.pc = "awaitBrowser",
                                       !.feed = "ok",
                                       !.items = SelectItems(feed, rec.limit),
                                       !.handle = browserPromise'])
    /\ UNCHANGED contexts
    /\ Frame

\* a sleep ends
Sleep(r) ==
    /\ Macro
    /\ reqs[r].pc = "sleep"
    /\ now >= reqs[r].wake
    /\ LET rec == reqs[r]
       IN  IF rec.kind = "ingest"
           THEN /\ Commit(r, [rec EXCEPT !.pc = "newContext"])
                /\ UNCHANGED << browsers, browserPromise >>
           ELSE /\ getBrowser(r)
                /\ Commit(r, [rec EXCEPT !.pc = "awaitBrowser", !.handle = browserPromise'])
    /\ UNCHANGED contexts
    /\ Frame

\* await getBrowser() settles
AwaitBrowser(r) ==
    /\ Macro
    /\ reqs[r].pc = "awaitBrowser"
    /\ browsers[reqs[r].handle].state # "pending"
    /\ LET rec == reqs[r]
       IN  Commit(r, IF browsers[rec.handle].state = "failed" THEN OnThrow(rec)
                     ELSE IF rec.kind = "ingest" THEN LoopHead([rec EXCEPT !.i = 0], now)
                     ELSE [rec EXCEPT !.pc = "newContext"])
    /\ UNCHANGED << browsers, browserPromise, contexts >>
    /\ Frame

\* the page a render is about: the i-th item of the batch, or the url asked for
PageOf(rec) == IF rec.kind = "ingest" THEN rec.i + 1 ELSE rec.item

\* browser.newContext settles
NewContext(r) ==
    /\ Macro
    /\ reqs[r].pc = "newContext"
    /\ LET rec == reqs[r]
       IN  \/ /\ contexts' = Append(contexts,
                     [owner |-> r, item |-> PageOf(rec), open |-> TRUE,
                      createdAt |-> now, closedAt |-> 0])
              /\ Commit(r, [rec EXCEPT !.pc = "setup", !.context = Len(contexts) + 1])
           \/ /\ Commit(r, OnThrow(rec))
              /\ UNCHANGED contexts
    /\ UNCHANGED << browsers, browserPromise >>
    /\ Frame

\* context.newPage and page.route settle
Setup(r) ==
    /\ Macro
    /\ reqs[r].pc = "setup"
    /\ \/ Commit(r, [reqs[r] EXCEPT !.pc = "render"])
       \/ \* context.newPage rejects
          Commit(r, OnThrow(reqs[r]))
       \/ \* page.route rejects
          Commit(r, OnThrow(reqs[r]))
    /\ UNCHANGED << browsers, browserPromise, contexts >>
    /\ Frame

\* page.goto, page.waitForTimeout, page.evaluate (and page.title in
\* /contract-detail) settle; /ingest extracts the events, /contract-detail
\* calls context.close()
Render(r) ==
    /\ Macro
    /\ reqs[r].pc = "render"
    /\ LET rec == reqs[r]
           k   == PageOf(rec)
       IN  \/ Commit(r, IF rec.kind = "ingest"
                        THEN [rec EXCEPT
                                !.pc = "close",
                                !.allEvents = rec.allEvents \o PageEvents[k, now],
                                !.done = Append(rec.done, "ok")]
                        ELSE [rec EXCEPT !.pc = "close", !.content = PageText(k)])
           \/ \* page.goto rejects (navigation error, timeout)
              Commit(r, OnThrow(rec))
           \/ \* page.waitForTimeout rejects
              Commit(r, OnThrow(rec))
           \/ \* page.evaluate rejects
              Commit(r, OnThrow(rec))
           \/ \* page.title rejects
              /\ rec.kind # "ingest"
              /\ Commit(r, OnThrow(rec))
    /\ UNCHANGED << browsers, browserPromise, contexts >>
    /\ Frame

\* handlers that share one variable for their context: the close lands on the
\* context created last
ClosedLatest(c) ==
    LET last == Len(contexts)
    IN  IF contexts[last].open
        THEN [contexts EXCEPT ![last].open = FALSE, ![last].closedAt = now]
        ELSE contexts

\* context.close() has settled on context c: resolved, or rejected because the
\* browser no longer holds the context; the context is open in neither case
Closed(c) ==
    IF contexts[c].open
    THEN [contexts EXCEPT ![c].open = FALSE, ![c].closedAt = now]
    ELSE contexts

\* the context.close of the render settles
Close(r) ==
    /\ Macro
    /\ reqs[r].pc = "close"
    /\ LET rec == reqs[r]
       IN  /\ contexts' = Closed(rec.context)
           /\ \E ok \in BOOLEAN :
                Commit(r, IF rec.kind = "ingest"
                          THEN \* finally { try { await context.close(); } catch {} }
                               LoopHead([rec EXCEPT !.i = rec.i + 1], now)
                          ELSE IF ok
                          THEN [rec EXCEPT
                                  !.pc = "done",
                                  !.resp = [status |-> 200, success |-> TRUE,
                                            url |-> LinkOf(rec.item),
                                            title |-> PageTitle(rec.item),
                                            content |-> trim(rec.content)]]
                          ELSE OnThrow(rec))
    /\ UNCHANGED << browsers, browserPromise >>
    /\ Frame

\* the context.close of a catch block settles, and the 500 is sent
CatchClose(r) ==
    /\ Macro
    /\ reqs[r].pc = "catchClose"
    /\ contexts' = Closed(reqs[r].context)
    /\ Commit(r, Respond500(reqs[r]))
    /\ UNCHANGED << browsers, browserPromise >>
    /\ Frame

\* the request of saveToSupabase settles
Save(r) ==
    /\ Macro
    /\ reqs[r].pc = "save"
    /\ LET rec == reqs[r]
       IN  \/ Commit(r, Respond200([rec EXCEPT !.sink = "saved"], Len(rec.allEvents)))
           \/ \* !res.ok: saveToSupabase throws
              Commit(r, Catch([rec EXCEPT !.sink = "failed"]))
           \/ \* the fetch rejects (transport failure, timeout)
              Commit(r, Catch([rec EXCEPT !.sink = "failed"]))
    /\ UNCHANGED << browsers, browserPromise, contexts >>
    /\ Frame

(***************************************************************************)
(* Time and signals                                                        *)
(***************************************************************************)
\* a timer is armed and not yet due
TimerArmed == \E r \in Reqs : reqs[r].pc = "sleep" /\ now < reqs[r].wake

\* Time passes. The server reads the clock through its timers only (the feed's
\* dates parse), so the clock is moved only while a timer is armed.
Tick ==
    /\ Macro
    /\ TimerArmed
    /\ now < MaxTicks * WAIT_MS
    /\ now' = now + WAIT_MS
    /\ UNCHANGED << browserPromise, browsers, contexts, reqs, sig, exited, sbConfigured,
                    qWaiting, qPending, qIntervalCount, pureVars >>

\* closeBrowser from (await browserPromise) on, for launch h: close() is called
\* and not awaited; a rejected launch lands in the empty catch
CloseCalled(h) ==
    LET b == browsers[h]
    IN  IF b.state = "failed" THEN browsers
        ELSE [browsers EXCEPT ![h] =
                [ state  |-> IF b.state = "running" THEN "closing" ELSE b.state,
                  by     |-> b.by,
                  closes |-> b.closes + 1 ]]

\* A signal arrives. With no launch held closeBrowser does nothing, with a
\* settled one its await, the call of close and the handler's process.exit(0)
\* are continuations of this one callback; with a pending one closeBrowser
\* waits for the launch. The two handlers are the same code: the first signal
\* to arrive is called SIGTERM.
SigStart(s) ==
    /\ Macro
    /\ sig[s].pc = "idle"
    /\ s = "SIGINT" => sig["SIGTERM"].pc # "idle"
    /\ IF browserPromise = 0
       THEN /\ sig' = [sig EXCEPT ![s].pc = "exited"]
            /\ exited' = TRUE
            /\ UNCHANGED << browsers, browserPromise >>
       ELSE IF browsers[browserPromise].state # "pending"
       THEN /\ sig' = [sig EXCEPT ![s] = [pc |-> "exited", h |-> browserPromise]]
            /\ browsers' = CloseCalled(browserPromise)
            /\ browserPromise' = 0
            /\ exited' = TRUE
       ELSE /\ sig' = [sig EXCEPT ![s] = [pc |-> "awaiting", h |-> browserPromise]]
            /\ UNCHANGED << browsers, browserPromise, exited >>
    /\ UNCHANGED << now, contexts, reqs, sbConfigured,
                    qWaiting, qPending, qIntervalCount, pureVars >>

\* closeBrowser after its await of a launch that was pending: close() is called,
\* browserPromise = null
SigClose(s) ==
    /\ ~exited
    /\ sig[s].pc = "awaiting"
    /\ browsers[sig[s].h].state # "pending"
    /\ browsers' = CloseCalled(sig[s].h)
    /\ browserPromise' = 0
    /\ sig' = [sig EXCEPT ![s].pc = "exitPending"]
    /\ UNCHANGED << now, contexts, reqs, exited, sbConfigured,
                    qWaiting, qPending, qIntervalCount, pureVars >>

\* the handler after closeBrowser(): process.exit(0). The continuations of
\* closeBrowser queued before it run first.
SigExit(s) ==
    /\ ~exited
    /\ sig[s].pc = "exitPending"
    /\ \A t \in Signals : ~(sig[t].pc = "awaiting" /\ browsers[sig[t].h].state # "pending")
    /\ exited' = TRUE
    /\ sig' = [sig EXCEPT ![s].pc = "exited"]
    /\ UNCHANGED << now, browserPromise, browsers, contexts, reqs, sbConfigured,
                    qWaiting, qPending, qIntervalCount, pureVars >>

(***************************************************************************)
(* Request handlers of the queued server (lines 457-583). Its render runs  *)
(* as a job of the PQueue; the steps of the job are the actions above, for *)
(* a request of kind qdetail.                                              *)
(***************************************************************************)
\* POST /contract-detail: the url is checked and the job is added to the queue
ArriveQDetail(r) ==
    /\ MayArrive(r)
    /\ \E item \in 0..1 :
        LET rec == [reqs[r] EXCEPT !.kind = "qdetail", !.item = item]
        IN  IF item = 0
            THEN \* if (!url) return res.status(400)
                 /\ Commit(r, [rec EXCEPT !.pc = "done",
                                          !.resp = [status |-> 400, success |-> FALSE]])
                 /\ UNCHANGED qWaiting
            ELSE /\ Commit(r, [rec EXCEPT !.pc = "queued"])
                 /\ qWaiting' = Append(qWaiting, r)
    /\ UNCHANGED << browsers, browserPromise, contexts, now, sig, exited, sbConfigured,
                    qIntervalCount, pureVars >>

\* the PQueue starts its next job: a slot is free and the interval's cap is not
\* reached; the job runs to its await of getBrowser()
QStart(r) ==
    /\ Macro
    /\ qWaiting # << >>
    /\ r = Head(qWaiting)
    /\ qPending < QUEUE_CONCURRENCY
    /\ qIntervalCount < INTERVAL_CAP
    /\ qWaiting' = Tail(qWaiting)
    /\ qPending' = qPending + 1
    /\ qIntervalCount' = qIntervalCount + 1
    /\ getBrowser(r)
    /\ reqs' = [reqs EXCEPT ![r] = [@ EXCEPT !.pc = "awaitBrowser", !.handle = browserPromise']]
    /\ UNCHANGED << contexts, now, sig, exited, sbConfigured, pureVars >>

\* the interval of the PQueue ends: the count of started jobs starts again
QInterval ==
    /\ Macro
    /\ qIntervalCount > 0
    /\ qIntervalCount' = 0
    /\ UNCHANGED << now, browserPromise, browsers, contexts, reqs, sig, exited, sbConfigured,
                    qWaiting, qPending, pureVars >>

(***************************************************************************)
(* Spec: the full server                                                   *)
(***************************************************************************)
vars == << now, browserPromise, browsers, contexts, reqs, sig, exited, sbConfigured,
           qWaiting, qPending, qIntervalCount, xText, xCtx, xRuns, lRaw, lFeed, lItems,
                    uIn, uOut >>

PureIdle ==
    /\ xText = ""
    /\ xCtx = [link |-> "", pub |-> ""]
    /\ xRuns = << >>
    /\ lRaw = Absent
    /\ lFeed = << >>
    /\ lItems = << >>
    /\ uIn = ""
    /\ uOut = << >>

ServerInit ==
    /\ now = 0
    /\ browserPromise = 0
    /\ browsers = << >>
    /\ contexts = << >>
    /\ reqs = [r \in Reqs |-> NewReq]
    /\ sig = [s \in Signals |-> [pc |-> "idle", h |-> 0]]
    /\ exited = FALSE
    /\ sbConfigured \in BOOLEAN
    /\ qWaiting = << >>
    /\ qPending = 0
    /\ qIntervalCount = 0

Init == ServerInit /\ PureIdle

Next ==
    \/ \E r \in Reqs : ArriveHealth(r)
    \/ \E r \in Reqs : ArriveContracts(r)
    \/ \E r \in Reqs : ArriveDetail(r)
    \/ \E r \in Reqs : ArriveIngest(r)
    \/ \E r \in Reqs : FetchRss(r)
    \/ \E r \in Reqs : Sleep(r)
    \/ \E r \in Reqs : AwaitBrowser(r)
    \/ \E r \in Reqs : NewContext(r)
    \/ \E r \in Reqs : Setup(r)
    \/ \E r \in Reqs : Render(r)
    \/ \E r \in Reqs : Close(r)
    \/ \E r \in Reqs : CatchClose(r)
    \/ \E r \in Reqs : Save(r)
    \/ LaunchSettles
    \/ Tick
    \/ \E s \in Signals : SigStart(s)
    \/ \E s \in Signals : SigClose(s)
    \/ \E s \in Signals : SigExit(s)

Spec == Init /\ [][Next]_vars

(***************************************************************************)
(* SpecQ: the queued server                                                *)
(***************************************************************************)
QNext ==
    \/ \E r \in Reqs : ArriveHealth(r)
    \/ \E r \in Reqs : ArriveContracts(r)
    \/ \E r \in Reqs : ArriveQDetail(r)
    \/ \E r \in Reqs : FetchRss(r)
    \/ \E r \in Reqs : QStart(r)
    \/ \E r \in Reqs : AwaitBrowser(r)
    \/ \E r \in Reqs : NewContext(r)
    \/ \E r \in Reqs : Setup(r)
    \/ \E r \in Reqs : Render(r)
    \/ \E r \in Reqs : Close(r)
    \/ QInterval
    \/ LaunchSettles
    \/ \E s \in Signals : SigStart(s)
    \/ \E s \in Signals : SigClose(s)
    \/ \E s \in Signals : SigExit(s)

SpecQ == Init /\ [][QNext]_vars

\* The queued server with its scheduling: a callback that is ready runs, what
\* a job awaits settles (the launch, and each call of the render, which ends
\* or times out), the queue starts a waiting job when a slot is free, and
\* the continuations of a signal handler run. Requests and signals may or
\* may not arrive.
QFairness ==
    /\ \A r \in Reqs :
        /\ WF_vars(QStart(r))
        /\ WF_vars(AwaitBrowser(r))
        /\ WF_vars(NewContext(r))
        /\ WF_vars(Setup(r))
        /\ WF_vars(Render(r))
        /\ WF_vars(Close(r))
        /\ WF_vars(FetchRss(r))
    /\ WF_vars(QInterval)
    /\ WF_vars(LaunchSettles)
    /\ \A s \in Signals : WF_vars(SigClose(s)) /\ WF_vars(SigExit(s))

SpecQLive == SpecQ /\ QFairness

(***************************************************************************)
(* SpecExtract: parseAwardsFromText applied to texts, at any times         *)
(***************************************************************************)
RECURSIVE Zeros(_)
\* n zeros (halving, to keep the evaluation shallow)
Zeros(n) ==
    IF n = 0 THEN ""
    ELSE IF n = 1 THEN "0"
    ELSE Zeros(n \div 2) \o Zeros(n - (n \div 2))

BillionLine == "Lockheed Martin Corp., Fort Worth, Texas, is awarded a $1,250,000,000.50 Billion ceiling."
NoAmountLine == "The Boeing Co., St. Louis, Missouri, was awarded a modification for sustainment."
\* a paragraph whose dollar figure has MaxAmountDigits digits
HugeAmountLine ==
    "Acme Inc., Dayton, Ohio, is being awarded $1" \o Zeros(MaxAmountDigits - 1)
        \o " for spare parts."

\* a paragraph that starts as a heading does and reads as an award, then a
\* paragraph with no amount, then one that is too short
HeadingAwardLine == "Navy Federal Systems LLC, Norfolk, Virginia, is awarded $5,000,000 for repairs."
HeadingAwardText == HeadingAwardLine \o "\n\n" \o NoAmountLine \o "\n\nWork ends in 2027."

Texts == {
    "ARMY\n\n" \o AwardLine,
    "NAVY:\r\n\r\n" \o AwardLine \o "\n\n\nAIR FORCE\n\n" \o OtherLine,
    AwardLine \o "\n\n" \o OtherLine,
    "Army Contracting Command, Redstone Arsenal, Alabama, is the contracting activity.\n\n" \o OtherLine,
    "Editor's note: the list below was corrected after publication.\n\n" \o OtherLine,
    "DEFENSE LOGISTICS AGENCY                   :\n\n" \o OtherLine,
    "short\n\n  \n\n" \o OtherLine,
    "AIR FORCE                                         \n\n" \o BillionLine \o "\n\n" \o NoAmountLine,
    HugeAmountLine,
    HeadingAwardText,
    "" }

\* pubDate values: two that parse, one missing, one unparsable
PubDates == {"Thu, 01 Jan 1970 00:00:01 GMT", "Thu, 01 Jan 1970 00:00:02 GMT", "", "yesterday"}

ServerIdle ==
    /\ browserPromise = 0
    /\ browsers = << >>
    /\ contexts = << >>
    /\ reqs = [r \in Reqs |-> NewReq]
    /\ sig = [s \in Signals |-> [pc |-> "idle", h |-> 0]]
    /\ exited = FALSE
    /\ sbConfigured = FALSE
    /\ qWaiting = << >>
    /\ qPending = 0
    /\ qIntervalCount = 0

serverVars == << browserPromise, browsers, contexts, reqs, sig, exited, sbConfigured,
                 qWaiting, qPending, qIntervalCount >>

XInit ==
    /\ ServerIdle
    /\ now = 0
    /\ xText \in Texts
    /\ xCtx \in [link : {LinkOf(1)}, pub : PubDates]
    /\ xRuns = << >>
    /\ lRaw = Absent
    /\ lFeed = << >>
    /\ lItems = << >>
    /\ uIn = ""
    /\ uOut = << >>

\* time passes
XTick ==
    /\ now < MaxTicks * WAIT_MS
    /\ now' = now + WAIT_MS
    /\ UNCHANGED << serverVars, pureVars >>

\* one call of parseAwardsFromText(text, ctx)
XExtract ==
    /\ Len(xRuns) < MaxCalls
    /\ xRuns' = Append(xRuns, [at |-> now, events |-> parseAwardsFromText(xText, xCtx, now)])
    /\ UNCHANGED << now, serverVars, xText, xCtx, lRaw, lFeed, lItems, uIn, uOut >>

XNext == XTick \/ XExtract

SpecExtract == XInit /\ [][XNext]_vars

(***************************************************************************)
(* SpecLimit: the selection of the items of /ingest, for any limit         *)
(***************************************************************************)
AllLimitInputs ==
    {Absent} \cup {Given(t) : t \in {"", "0", "-3", "1", "3", "2.5", "0.5", "20", "21",
                                     "25", "abc", "ten", " 7 "}}

\* before the selection: no item of a feed has an empty link
Unselected == << [title |-> "", link |-> "", pub |-> ""] >>

LInit ==
    /\ ServerIdle
    /\ now = 0
    /\ xText = ""
    /\ xCtx = [link |-> "", pub |-> ""]
    /\ xRuns = << >>
    /\ lRaw \in AllLimitInputs
    /\ lFeed \in {FeedOf(n) : n \in 0..MaxLimitFeed}
    /\ lItems = Unselected
    /\ uIn = ""
    /\ uOut = << >>

\* const items = parseRss(xml).slice(0, limit)
LSelect ==
    /\ lItems = Unselected
    /\ lItems' = SelectItems(lFeed, lRaw)
    /\ UNCHANGED << now, serverVars, xText, xCtx, xRuns, lRaw, lFeed, uIn, uOut >>

LNext == LSelect

SpecLimit == LInit /\ [][LNext]_vars

(***************************************************************************)
(* SpecUrl: normalizeUrl applied to links                                  *)
(***************************************************************************)
\* where the first match of the (upper-case) literal p starts in s, ignoring
\* case; 0 when there is none
FindCI(s, p) ==
    LET hits == {i \in 1..Len(s) : StartsWithCI(SubSeq(s, i, Len(s)), p)}
    IN  IF hits = {} THEN 0 ELSE CHOOSE i \in hits : \A j \in hits : i <= j

\* s with the n characters from position i replaced by r
ReplaceAt(s, i, n, r) == SubSeq(s, 1, i - 1) \o r \o SubSeq(s, i + n, Len(s))

\* .replace(/^http:/i, 'https:')
ForceHttps(u) ==
    IF StartsWithCI(u, "HTTP:") THEN ReplaceAt(u, 1, 5, "https:") ELSE u

\* .replace(/\/\/(www\.)?war\.gov\//i, '//www.defense.gov/'): the first match
ReplaceWarHost(u) ==
    LET w == FindCI(u, "//WWW.WAR.GOV/")
        b == FindCI(u, "//WAR.GOV/")
    IN  IF w = 0 /\ b = 0 THEN u
        ELSE IF b = 0 \/ (w # 0 /\ w < b)
        THEN ReplaceAt(u, w, 14, "//www.defense.gov/")
        ELSE ReplaceAt(u, b, 10, "//www.defense.gov/")

\* .replace(/\/\/defense\.gov\//i, '//www.defense.gov/'): the first match
ReplaceBareHost(u) ==
    LET b == FindCI(u, "//DEFENSE.GOV/")
    IN  IF b = 0 THEN u ELSE ReplaceAt(u, b, 14, "//www.defense.gov/")

\* normalizeUrl(url) of the full server: the link is trimmed first
normalizeUrl(url) == ReplaceBareHost(ReplaceWarHost(ForceHttps(trim(url))))

\* normalizeUrl(url) of the queued server: no trim
normalizeUrlQ(url) == ReplaceBareHost(ReplaceWarHost(ForceHttps(url)))

\* the links: a scheme, a host, and what follows the host
LinkSchemes == {"http:", "https:", "HTTP:", "ftp:", ""}
LinkHosts == {"war.gov", "www.war.gov", "defense.gov", "www.defense.gov", "WAR.GOV",
              "www.example.com"}
LinkTails == {"", "/", "/News/Contracts/Contract/Article/1/", "?id=1"}
Links ==
    {sch \o "//" \o h \o t : sch \in LinkSchemes, h \in LinkHosts, t \in LinkTails}
        \cup {" http://www.war.gov/News/ ", "http://www.war.gov//war.gov/"}

UInit ==
    /\ ServerIdle
    /\ now = 0
    /\ xText = ""
    /\ xCtx = [link |-> "", pub |-> ""]
    /\ xRuns = << >>
    /\ lRaw = Absent
    /\ lFeed = << >>
    /\ lItems = << >>
    /\ uIn \in Links
    /\ uOut = << >>

\* one call of each normalizeUrl
UNormalize ==
    /\ uOut = << >>
    /\ uOut' = << [full |-> normalizeUrl(uIn), queued |-> normalizeUrlQ(uIn)] >>
    /\ UNCHANGED << now, serverVars, xText, xCtx, xRuns, lRaw, lFeed, lItems, uIn >>

UNext == UNormalize

SpecUrl == UInit /\ [][UNext]_vars

(***************************************************************************)
(* Properties                                                              *)
(***************************************************************************)
IngestReqs == {r \in Reqs : reqs[r].kind = "ingest"}
ContextsOf(r) == {c \in 1..Len(contexts) : contexts[c].owner = r}

\* C1: every context a render opened is closed by the time the request that
\* opened it has finished, however the render ended. Checked on the queued
\* server (SpecQ), whose /contract-detail is one of the renders.
C1_ContextClosedWhenDone ==
    \A c \in 1..Len(contexts) :
        reqs[contexts[c].owner].pc = "done" => ~contexts[c].open

\* C2: in /ingest, once the feed is read and the browser obtained, a failure
\* of any step of one item (creating the context or the page, the route, the
\* navigation, the wait, the read, the extraction) does not fail the request:
\* every selected item is gone through and the summary is answered. (A
\* failure of the persistence, which is no step of an item, is set aside.)
C2_ItemFailureIsolated ==
    \A r \in IngestReqs :
        ( /\ reqs[r].pc = "done"
          /\ reqs[r].handle # 0
          /\ browsers[reqs[r].handle].state # "failed"
          /\ reqs[r].sink # "failed" )
        => /\ reqs[r].resp.status = 200
           /\ reqs[r].resp.articles = Len(reqs[r].items)
           /\ Len(reqs[r].done) = Len(reqs[r].items)

\* C3: at most one browser context is open at any time, whatever the number
\* of requests in flight.
C3_AtMostOneContext == Cardinality(OpenContexts) <= 1

\* C4: when /ingest is asked to save and the sink fails, the request still
\* answers the summary of the events extracted, with saved 0.
C4_SinkFailureKeepsEvents ==
    \A r \in IngestReqs :
        (reqs[r].pc = "done" /\ reqs[r].sink = "failed")
        => /\ reqs[r].resp.status = 200
           /\ reqs[r].resp.success
           /\ reqs[r].resp.saved = 0
           /\ reqs[r].resp.events = Len(reqs[r].allEvents)

\* C8: /ingest renders its items one after the other, in the order of the
\* feed, and at least WAIT_MS passes between the closing of the context of an
\* item and the creation of the context of the next one, whether the item
\* was extracted or failed.
C8_SequentialWithDelay ==
    \A c, d \in 1..Len(contexts) :
        ( /\ c < d
          /\ contexts[c].owner = contexts[d].owner
          /\ contexts[c].owner \in IngestReqs )
        => /\ contexts[c].item < contexts[d].item
           /\ ~contexts[c].open
           /\ contexts[c].closedAt + WAIT_MS <= contexts[d].createdAt

\* an /ingest whose first item failed has created the context of its second
C8_Witness_SecondAfterFailure ==
    \E r \in IngestReqs :
        /\ Len(reqs[r].done) >= 1
        /\ reqs[r].done[1] = "failed"
        /\ \E d \in ContextsOf(r) : contexts[d].item = 2

\* the requests that render
Renders(r) ==
    \/ reqs[r].kind \in {"ingest", "qdetail"}
    \/ reqs[r].kind = "detail" /\ reqs[r].item # 0

\* C9: the browser is launched at most once, by a request that renders, and
\* every request that asks for the browser gets that one launch; a request
\* that does not render launches nothing, and the browser's close is called
\* by the signal handlers only.
C9_SingleLazyLaunch ==
    /\ Len(browsers) <= 1
    /\ \A r \in Reqs :
        reqs[r].handle # 0 => reqs[r].handle = 1 /\ Renders(r)
    /\ \A h \in 1..Len(browsers) :
        /\ Renders(browsers[h].by)
        /\ reqs[browsers[h].by].handle = h
        /\ browsers[h].closes > 0 => \E s \in Signals : sig[s].pc # "idle"
        /\ browsers[h].closes <= Cardinality({s \in Signals : sig[s].h = h})
    /\ (browsers = << >>) => browserPromise = 0

\* two requests hold the same launch: the one that launched has been
\* answered, the other is still rendering
C9_Witness_SharedLaunch ==
    \E r, q \in Reqs :
        /\ r # q
        /\ reqs[r].handle = 1
        /\ reqs[q].handle = 1
        /\ browsers[1].by = r
        /\ browsers[1].state = "running"
        /\ reqs[r].pc = "done"
        /\ reqs[q].pc \notin {"idle", "done"}

\* C10: when the process exits on SIGTERM or SIGINT, the close of a browser
\* that was started has completed: no browser is left running or closing.
C10_BrowserClosedBeforeExit ==
    exited => \A h \in 1..Len(browsers) : browsers[h].state \notin {"running", "closing"}

\* the paragraph is exactly one of the names of SERVICES
ExactHeading(p) == \E n \in 1..Len(SERVICES) : trim(p) = SERVICES[n]

\* C5: a paragraph that is exactly a name of SERVICES is never an event, and
\* the events of the paragraphs after it, up to the next heading, carry it as
\* their agency.
C5_HeadingSetsAgency ==
    \A k \in 1..Len(xRuns) :
        LET paras == SplitParas(RemoveCR(xText))
            evs   == xRuns[k].events
        IN  \A i \in 1..Len(paras) :
                ExactHeading(paras[i]) =>
                    /\ \A e \in 1..Len(evs) : evs[e].body_text # trim(paras[i])
                    /\ \A j \in (i + 1)..Len(paras), e \in 1..Len(evs) :
                        ( /\ \A m \in (i + 1)..(j - 1) :
                                ~serviceReTest(toUpperCase(trim(paras[m])))
                          /\ evs[e].body_text = trim(paras[j]) )
                        => evs[e].agencies = << "Department of Defense", trim(paras[i]) >>

\* C6: two calls of parseAwardsFromText with the same text and the same item
\* return the same events, published_at included, also when the item has no
\* pubDate.
C6_ExtractDeterministic ==
    \A a, b \in 1..Len(xRuns) : xRuns[a].events = xRuns[b].events

\* C7: whatever the limit parameter holds (absent, zero, negative,
\* fractional, above the ceiling, not a number), /ingest selects the first
\* min(feed length, L) items of the feed, in the order of the feed, for a
\* number L of 1..20, which is MAX_CONTRACTS when the parameter is absent; it
\* never selects more than 20.
C7_LimitClamped ==
    lItems # Unselected =>
        /\ Len(lItems) <= LIMIT_CEILING
        /\ \E L \in LIMIT_FLOOR..LIMIT_CEILING :
            /\ ~lRaw.given => L = MAX_CONTRACTS
            /\ lItems = SubSeq(lFeed, 1, IF Len(lFeed) < L THEN Len(lFeed) ELSE L)

\* C11: whatever the number of calls of closeBrowser, two signal handlers
\* that overlap included, the close of a browser is called at most once.
C11_CloseAtMostOnce ==
    \A h \in 1..Len(browsers) : browsers[h].closes <= 1

\* C13: a context.close that fails does not change the outcome of a request:
\* a /contract-detail whose text and title were read is answered with success.
C13_CloseFailureKeepsOutcome ==
    \A r \in Reqs :
        ( /\ reqs[r].kind = "detail"
          /\ reqs[r].pc = "done"
          /\ reqs[r].content # "" )
        => reqs[r].resp.status = 200

\* C12: an /ingest whose fetch of the feed failed is answered at once with a
\* failure; it has launched no browser, asked for none, created no context,
\* extracted nothing and made no request to the sink.
C12_FeedFailureAborts ==
    \A r \in IngestReqs :
        reqs[r].feed = "failed"
        => /\ reqs[r].pc = "done"
           /\ reqs[r].resp.status = 500
           /\ ~reqs[r].resp.success
           /\ reqs[r].handle = 0
           /\ \A h \in 1..Len(browsers) : browsers[h].by # r
           /\ ContextsOf(r) = {}
           /\ reqs[r].allEvents = << >>
           /\ reqs[r].sinkCalls = 0
           /\ reqs[r].sink = "none"

\* an /ingest that asked to save, with the sink configured, lost its feed
C12_Witness_FeedFailed ==
    \E r \in IngestReqs :
        /\ reqs[r].feed = "failed"
        /\ reqs[r].doSave
        /\ sbConfigured
        /\ reqs[r].pc = "done"

\* the host of a link: what stands between the first "//" and the next "/",
\* "?" or "#", in upper case
HostOf(u) ==
    LET a    == FindCI(u, "//")
        rest == IF a = 0 THEN "" ELSE SubSeq(u, a + 2, Len(u))
        ends == {i \in 1..Len(rest) : CharAt(rest, i) \in {"/", "?", "#"}}
        e    == IF ends = {} THEN Len(rest) + 1 ELSE CHOOSE i \in ends : \A j \in ends : i <= j
    IN  toUpperCase(SubSeq(rest, 1, e - 1))

\* the scheme is https and the host is none of the hosts to be replaced
Canonical(u) ==
    /\ Len(u) >= 8
    /\ SubSeq(u, 1, 8) = "https://"
    /\ HostOf(u) \notin {"WAR.GOV", "WWW.WAR.GOV", "DEFENSE.GOV"}

\* C14: for every link, what normalizeUrl returns has the scheme https and a
\* host that is neither war.gov, www.war.gov nor the bare defense.gov, also
\* when nothing follows the host and when the scheme was neither http nor
\* https.
C14_LinkCanonical ==
    \A k \in 1..Len(uOut) : Canonical(uOut[k].full) /\ Canonical(uOut[k].queued)

\* the paragraph holds a dollar figure: a "$" with a digit (or a comma of a
\* figure) right after it
HasDollarFigure(line) ==
    \E i \in 1..(Len(line) - 1) :
        CharAt(line, i) = "$" /\ (IsDigit(CharAt(line, i + 1)) \/ CharAt(line, i + 1) = ",")

\* the text ends with the word w, whatever the case
EndsWithWord(text, w) ==
    /\ Len(text) >= Len(w)
    /\ toUpperCase(SubSeq(text, Len(text) - Len(w) + 1, Len(text))) = w

\* C15: the amount of every event is null or a finite number that is not
\* negative; amount, amount_unit and amount_text are null together, exactly
\* when the paragraph holds no dollar figure; a figure followed by million
\* or billion is multiplied by 1e6 or 1e9.
C15_AmountWellFormed ==
    \A k \in 1..Len(xRuns) :
        \A n \in 1..Len(xRuns[k].events) :
            LET e == xRuns[k].events[n]
            IN  /\ e.amount.isNull \/ e.amount.finite
                /\ e.amount.isNull <=> ~HasDollarFigure(e.body_text)
                /\ e.amount.isNull <=> e.amount_unit = Null
                /\ e.amount.isNull <=> e.amount_text = Null
                /\ ~e.amount.isNull =>
                     e.amount.exp = IF EndsWithWord(e.amount_text, "BILLION") THEN 9
                                    ELSE IF EndsWithWord(e.amount_text, "MILLION") THEN 6
                                    ELSE 0

\* the paragraph survives: it has the minimum length, is no heading and no
\* boilerplate lead
Survives(line) ==
    /\ Len(line) >= MinParaLen
    /\ ~serviceReTest(toUpperCase(line))
    /\ ~IsBoilerplate(line)

\* the paragraphs of a text, trimmed
TrimmedParas(text) ==
    LET paras == SplitParas(RemoveCR(text))
    IN  [i \in 1..Len(paras) |-> trim(paras[i])]

\* C16: the events of a call are the surviving paragraphs of the text, one
\* event each and in their order, whatever the amount found or not found in
\* them; a paragraph that starts as a heading does is no event, also when it
\* reads as an award.
C16_OneEventPerSurvivor ==
    \A k \in 1..Len(xRuns) :
        LET evs == xRuns[k].events
        IN  /\ [n \in 1..Len(evs) |-> evs[n].body_text]
                  = SelectSeq(TrimmedParas(xText), Survives)
            /\ \A n \in 1..Len(evs) : ~serviceReTest(toUpperCase(evs[n].body_text))

\* of a heading that reads as an award, a paragraph with no amount and a
\* short paragraph, the second alone is an event, with a null amount
C16_Witness_HeadingAward ==
    /\ xText = HeadingAwardText
    /\ \E k \in 1..Len(xRuns) :
        /\ Len(xRuns[k].events) = 1
        /\ xRuns[k].events[1].body_text = NoAmountLine
        /\ xRuns[k].events[1].amount.isNull
        /\ xRuns[k].events[1].agencies[2] = toUpperCase(HeadingAwardLine)

\* C17: an /ingest makes at most one request to the sink, only when it was
\* asked to save, the sink is configured and it has an event, only once every
\* item is done and its context closed, and for all its events; with no sink
\* configured it makes none and answers its events with saved = 0.
C17_SinkOnceAfterBatch ==
    \A r \in Reqs :
        LET rec == reqs[r]
        IN  /\ rec.sinkCalls <= 1
            /\ rec.sinkCalls = 1 <=> (rec.pc = "save" \/ rec.sink \in {"saved", "failed"})
            /\ rec.sinkCalls = 1 =>
                 /\ rec.kind = "ingest"
                 /\ rec.doSave
                 /\ sbConfigured
                 /\ Len(rec.allEvents) > 0
                 /\ rec.i = Len(rec.items)
                 /\ Len(rec.done) = Len(rec.items)
                 /\ \A c \in ContextsOf(r) : ~contexts[c].open
            /\ rec.sink = "saved" =>
                 /\ rec.resp.status = 200
                 /\ rec.resp.saved = Len(rec.allEvents)
                 /\ rec.resp.events = Len(rec.allEvents)
            /\ (rec.kind = "ingest" /\ rec.pc = "done" /\ rec.resp.status = 200
                  /\ ~sbConfigured) =>
                 /\ rec.sinkCalls = 0
                 /\ rec.resp.saved = 0
                 /\ rec.resp.events = Len(rec.allEvents)

\* an /ingest whose first item failed saved the events of its second
C17_Witness_SavedAfterBatch ==
    \E r \in IngestReqs :
        /\ reqs[r].done = << "failed", "ok" >>
        /\ reqs[r].sink = "saved"
        /\ reqs[r].pc = "done"

\* C18: in the queued server, as long as the process runs, every job that
\* waits in the queue is started and answered, also behind a job whose render
\* failed: a failed job frees the slot.
C18_QueuedJobAnswered ==
    \A r \in Reqs :
        (reqs[r].pc = "queued") ~> (reqs[r].pc = "done" \/ exited)

\* a job failed after it created its context, and the job after it was
\* rendered and answered
C18_Witness_AnsweredAfterFailure ==
    \E r, q \in Reqs :
        /\ r # q
        /\ reqs[r].kind = "qdetail" /\ reqs[r].pc = "done" /\ reqs[r].resp.status = 500
        /\ reqs[q].kind = "qdetail" /\ reqs[q].pc = "done" /\ reqs[q].resp.status = 200
        /\ \E c \in ContextsOf(r), d \in ContextsOf(q) : c < d /\ contexts[c].open

RECURSIVE EventsOfDone(_, _)
\* the events of the pages of the first k items of a batch, for the items
\* that were read (the dates of the feed parse: the events of a page do not
\* depend on the time of the call)
EventsOfDone(done, k) ==
    IF k = 0 THEN << >>
    ELSE EventsOfDone(done, k - 1) \o (IF done[k] = "ok" THEN PageEvents[k, 0] ELSE << >>)

\* what an /ingest holds and answers comes from its own items
OwnResults(r) ==
    LET rec == reqs[r]
    IN  /\ rec.context # 0 => contexts[rec.context].owner = r
        /\ rec.allEvents = EventsOfDone(rec.done, Len(rec.done))
        /\ Len(rec.done) <= Len(rec.items)
        /\ (rec.pc = "done" /\ rec.resp.status = 200) =>
             /\ rec.resp.articles = Len(rec.items)
             /\ rec.resp.events = Len(rec.allEvents)
             /\ rec.resp.sample = SubSeq(rec.allEvents, 1,
                                    IF Len(rec.allEvents) < SAMPLE_LEN
                                    THEN Len(rec.allEvents) ELSE SAMPLE_LEN)

\* a context that a step closes is closed by the request that created it,
\* from its finally or its catch
ClosedByOwner ==
    \A c \in 1..Len(contexts) :
        (contexts[c].open /\ ~contexts'[c].open) =>
            LET o == contexts[c].owner
            IN  /\ reqs[o].pc \in {"close", "catchClose"}
                /\ reqs[o].context = c
                /\ reqs'[o] # reqs[o]

\* C19: under any interleaving of /ingest calls, the events, the counts and
\* the sample of a call come from the items that call rendered, and the
\* context a call closes is one it created.
C19_IngestIsolated ==
    /\ [](\A r \in IngestReqs : OwnResults(r))
    /\ [][ClosedByOwner]_vars

\* two /ingest calls whose renders interleaved have both answered, with
\* different results
C19_Witness_Interleaved ==
    \E r, q \in IngestReqs :
        /\ r # q
        /\ reqs[r].pc = "done" /\ reqs[r].resp.status = 200
        /\ reqs[q].pc = "done" /\ reqs[q].resp.status = 200
        /\ reqs[r].resp.events # reqs[q].resp.events
        /\ reqs[q].resp.events > 0
        /\ \E c, e \in ContextsOf(r), d \in ContextsOf(q) : c < d /\ d < e

\* a call of getBrowser made once a launch has failed returns that launch
\* and launches nothing
FailedLaunchReturned ==
    \A r \in Reqs, h \in 1..Len(browsers) :
        (browsers[h].state = "failed" /\ reqs[r].handle = 0 /\ reqs'[r].handle # 0)
        => reqs'[r].handle = h /\ browsers' = browsers

\* once a launch has failed: no other launch is made, browserPromise holds
\* the failed launch until a signal handler resets it, and every request
\* that asked for the browser got the failed launch, creates no context and
\* is answered with a failure
FailedLaunchKept ==
    \A h \in 1..Len(browsers) :
        browsers[h].state = "failed" =>
            /\ Len(browsers) = 1
            /\ browserPromise = h \/ \E s \in Signals : sig[s].pc # "idle"
            /\ \A r \in Reqs :
                reqs[r].handle # 0 =>
                    /\ reqs[r].handle = h
                    /\ ContextsOf(r) = {}
                    /\ reqs[r].pc \in {"awaitBrowser", "done"}
                    /\ reqs[r].pc = "done" => reqs[r].resp.status = 500

\* C20: a launch that failed is kept: getBrowser returns it to every later
\* caller and launches nothing, so every later render fails, until
\* closeBrowser resets browserPromise.
C20_FailedLaunchCached ==
    /\ []FailedLaunchKept
    /\ [][FailedLaunchReturned]_vars

\* the launch failed; the request that launched and another request, an
\* /ingest that had its feed, were both answered with a failure
C20_Witness_BothFailed ==
    \E r, q \in Reqs :
        /\ r # q
        /\ browsers # << >>
        /\ browsers[1].state = "failed"
        /\ browsers[1].by = r
        /\ reqs[r].pc = "done" /\ reqs[r].resp.status = 500
        /\ reqs[q].kind = "ingest" /\ reqs[q].feed = "ok" /\ reqs[q].handle = 1
        /\ reqs[q].pc = "done" /\ reqs[q].resp.status = 500

====
